---- MODULE Spec2Model ----
(***************************************************************************)
(* Model of the F1 lap-telemetry feature pipeline: helpers.py (table       *)
(* builders, telemetry aggregation, final cleanup and normalisation) and   *)
(* ml.py (the year / session / track loop that accumulates the dataset).   *)
(*                                                                         *)
(* Numbers.  A pandas float cell is an exact rational <<n, d>> with d > 0  *)
(* in lowest terms; the missing value (NaN / None / NaT after conversion)  *)
(* is <<0, 0>>.  A raw duration (timedelta) is <<ms>>, a whole number of   *)
(* milliseconds, and the missing duration NaT is << >>.  A table           *)
(* (DataFrame) is a sequence of rows; a row is a record of its columns.    *)
(***************************************************************************)
EXTENDS Integers, Sequences, FiniteSets, TLC

VARIABLES
    \* calculate_lap_agg_telemetry / aggregate_lap
    driver_laps,        \* argument: the laps of one driver
    driver_car,         \* argument: the telemetry of that driver
    lap_windows,        \* lap_telemetry of every loop iteration, in loop order
    driver_laps_agg,    \* return value of calculate_lap_agg_telemetry
    lap_telemetry,      \* argument of aggregate_lap
    agg_result,         \* return value of aggregate_lap
    \* get_session_results / get_session_laps
    session,            \* the provider's session object
    session_results,    \* return value of get_session_results
    session_laps,       \* return value of get_session_laps
    \* final_preprocessing / convert_to_diff
    df,                 \* argument
    df_diff,            \* return value of convert_to_diff(df)
    df_final,           \* return value of final_preprocessing(df)
    \* ml.py
    pc,                 \* position of the script
    year_i,             \* index into years
    s_i,                \* index into sessions
    track,              \* the track loop variable
    final_data,         \* the accumulator
    csv,                \* the content of final_data_<year>.csv
    provider,           \* what the provider holds for each track of the year
    raw_data,           \* history: the joined rows of every accumulated session
    processed           \* history: the tracks whose session was accumulated

vars == <<driver_laps, driver_car, lap_windows, driver_laps_agg, lap_telemetry,
          agg_result, session, session_results, session_laps, df, df_diff,
          df_final, pc, year_i, s_i, track, final_data, csv, provider,
          raw_data, processed>>

aggVars == <<driver_laps, driver_car, lap_windows, driver_laps_agg>>
gearVars == <<lap_telemetry, agg_result>>
tableVars == <<session, session_results, session_laps>>
finalVars == <<df, df_diff, df_final>>
mlVars == <<pc, year_i, s_i, track, final_data, csv, provider, raw_data, processed>>

----------------------------------------------------------------------------
(* Exact arithmetic on cells *)

NaN == <<0, 0>>

Abs(n) == IF n < 0 THEN -n ELSE n

RECURSIVE GCD(_, _)
GCD(a, b) == IF b = 0 THEN a ELSE GCD(b, a % b)

Norm(n, d) ==
    IF d = 0 THEN NaN
    ELSE LET g == GCD(Abs(n), Abs(d))
             s == IF d < 0 THEN -1 ELSE 1
         IN  <<(s * n) \div g, (s * d) \div g>>

R(n) == <<n, 1>>

IsNaN(x) == x[2] = 0

Add(x, y) == IF IsNaN(x) \/ IsNaN(y) THEN NaN
             ELSE Norm(x[1] * y[2] + y[1] * x[2], x[2] * y[2])

Sub(x, y) == IF IsNaN(x) \/ IsNaN(y) THEN NaN
             ELSE Norm(x[1] * y[2] - y[1] * x[2], x[2] * y[2])

DivInt(x, k) == IF IsNaN(x) THEN NaN ELSE Norm(x[1], x[2] * k)

\* comparisons with a missing operand are False, as in pandas
Less(x, y) == ~IsNaN(x) /\ ~IsNaN(y) /\ x[1] * y[2] < y[1] * x[2]
LessEq(x, y) == ~IsNaN(x) /\ ~IsNaN(y) /\ x[1] * y[2] <= y[1] * x[2]

\* astype(int) of a non-negative float: truncation
Trunc(x) == R(x[1] \div x[2])

----------------------------------------------------------------------------
(* Sequences *)

RECURSIVE SumSeq(_)
SumSeq(s) ==
    IF s = << >> THEN R(0)
    ELSE IF Len(s) = 1 THEN s[1]
    ELSE Add(SumSeq(SubSeq(s, 1, Len(s) \div 2)),
             SumSeq(SubSeq(s, Len(s) \div 2 + 1, Len(s))))

Col(tbl, c) == [i \in 1..Len(tbl) |-> tbl[i][c]]

NotNull(s) == SelectSeq(s, LAMBDA x : ~IsNaN(x))

\* Series.mean(): the missing values are skipped; NaN when nothing is left
Mean(s) == LET v == NotNull(s) IN
           IF v = << >> THEN NaN ELSE DivInt(SumSeq(v), Len(v))

RECURSIVE MinSeq(_)
MinSeq(s) == IF Len(s) = 1 THEN s[1]
             ELSE LET m == MinSeq(Tail(s)) IN IF Less(m, s[1]) THEN m ELSE s[1]

RECURSIVE MaxSeq(_)
MaxSeq(s) == IF Len(s) = 1 THEN s[1]
             ELSE LET m == MaxSeq(Tail(s)) IN IF Less(s[1], m) THEN m ELSE s[1]

RECURSIVE InsertSorted(_, _)
\* pairs <<key, item>>: p goes after every pair whose key is <= its own (stable)
InsertSorted(s, p) ==
    IF s = << >> THEN <<p>>
    ELSE IF Less(p[1], Head(s)[1]) THEN <<p>> \o s
    ELSE <<Head(s)>> \o InsertSorted(Tail(s), p)

RECURSIVE SortPairs(_)
SortPairs(s) ==
    IF s = << >> THEN << >>
    ELSE InsertSorted(SortPairs(SubSeq(s, 1, Len(s) - 1)), s[Len(s)])

SortBy(s, key(_)) ==
    LET o == SortPairs([i \in 1..Len(s) |-> <<key(s[i]), s[i]>>])
    IN  [i \in 1..Len(s) |-> o[i][2]]

Median(s) ==
    LET o == SortBy(s, LAMBDA x : x)
        n == Len(o)
    IN  IF n % 2 = 1 THEN o[(n + 1) \div 2]
        ELSE DivInt(Add(o[n \div 2], o[n \div 2 + 1]), 2)

Count(s, P(_)) == Len(SelectSeq(s, P))

----------------------------------------------------------------------------
(* helpers.py: aggregate_lap *)

\* Series.mode().iloc[0]: mode() returns the most frequent values sorted
\* in ascending order, so its first entry is the smallest of them
ModeFirstSeen(s) ==
    LET v == NotNull(s)
        cnt(x) == Count(v, LAMBDA y : y = x)
        top == {i \in 1..Len(v) : \A j \in 1..Len(v) : cnt(v[j]) <= cnt(v[i])}
    IN  IF v = << >> THEN NaN
        ELSE v[CHOOSE i \in top : \A j \in top : i <= j]

SeriesMode(s) ==
    LET v == NotNull(s)
        cnt(x) == Count(v, LAMBDA y : y = x)
        top == {v[i] : i \in {i \in 1..Len(v) :
                                \A j \in 1..Len(v) : cnt(v[j]) <= cnt(v[i])}}
    IN  IF v = << >> THEN NaN
        ELSE CHOOSE x \in top : \A y \in top : ~Less(y, x)

SeriesMin(s) == IF NotNull(s) = << >> THEN NaN ELSE MinSeq(NotNull(s))
SeriesMax(s) == IF NotNull(s) = << >> THEN NaN ELSE MaxSeq(NotNull(s))
SeriesMedian(s) == IF NotNull(s) = << >> THEN NaN ELSE Median(NotNull(s))

StatCols == {"RpmAvg", "RpmMin", "RpmMax", "SpeedAvg", "SpeedMedian", "SpeedMin",
             "SpeedMax", "ThrottleAvg", "ThrottleMin", "ThrottleMax", "nGearAvg",
             "nGearMin", "nGearMax", "nGearMode"}

AggCols == StatCols \cup {"BrakeCount", "DrsCount"}

aggregate_lap(tel) ==
    IF tel = << >>
    THEN [c \in AggCols |-> IF c \in {"BrakeCount", "DrsCount"} THEN R(0) ELSE NaN]
    ELSE [RpmAvg      |-> Mean(Col(tel, "RPM")),
          RpmMin      |-> SeriesMin(Col(tel, "RPM")),
          RpmMax      |-> SeriesMax(Col(tel, "RPM")),
          SpeedAvg    |-> Mean(Col(tel, "Speed")),
          SpeedMedian |-> SeriesMedian(Col(tel, "Speed")),
          SpeedMin    |-> SeriesMin(Col(tel, "Speed")),
          SpeedMax    |-> SeriesMax(Col(tel, "Speed")),
          ThrottleAvg |-> Mean(Col(tel, "Throttle")),
          ThrottleMin |-> SeriesMin(Col(tel, "Throttle")),
          ThrottleMax |-> SeriesMax(Col(tel, "Throttle")),
          nGearAvg    |-> Mean(Col(tel, "nGear")),
          nGearMin    |-> SeriesMin(Col(tel, "nGear")),
          nGearMax    |-> SeriesMax(Col(tel, "nGear")),
          BrakeCount  |-> R(Count(Col(tel, "Brake"), LAMBDA x : Less(R(0), x))),
          DrsCount    |-> R(Count(Col(tel, "DRS"), LAMBDA x : Less(R(0), x))),
          nGearMode   |-> SeriesMode(Col(tel, "nGear"))]

----------------------------------------------------------------------------
(* helpers.py: calculate_lap_agg_telemetry *)

LapWindowClosed(car, prev_time, lap_end) ==
    SelectSeq(car, LAMBDA r : LessEq(prev_time, r.SessionTime)
                              /\ LessEq(r.SessionTime, lap_end))

\* driver_car[(SessionTime > prev_time) & (SessionTime <= lap_end)]
LapWindow(car, prev_time, lap_end) ==
    SelectSeq(car, LAMBDA r : Less(prev_time, r.SessionTime)
                              /\ LessEq(r.SessionTime, lap_end))

LapEnd(row) == Add(row.SessionTime, row.LapTime)

RECURSIVE LapSweep(_, _, _)
\* the for loop: the lap_telemetry of every row, prev_time carried forward
LapSweep(laps, car, prev_time) ==
    IF laps = << >> THEN << >>
    ELSE <<LapWindow(car, prev_time, LapEnd(Head(laps)))>>
         \o LapSweep(Tail(laps), car, LapEnd(Head(laps)))

SortLaps(laps) == SortBy(laps, LAMBDA r : r.SessionTime)

LapWindows(laps, car) ==
    IF laps = << >> THEN << >>
    ELSE LapSweep(SortLaps(laps), car, SeriesMin(Col(laps, "SessionTime")))

RECURSIVE Flatten(_)
Flatten(ss) == IF ss = << >> THEN << >> ELSE Head(ss) \o Flatten(Tail(ss))

\* pd.merge(left, right, on=on, how="left"); fill is the row of missing
\* values a left row gets when no right row matches
MergeLeft(left, right, on, fill) ==
    Flatten([i \in 1..Len(left) |->
        LET m == SelectSeq(right, LAMBDA r : r[on] = left[i][on])
        IN  IF m = << >> THEN <<left[i] @@ fill>>
            ELSE [j \in 1..Len(m) |-> left[i] @@ m[j]]])

calculate_lap_agg_telemetry(laps, car) ==
    LET sorted == SortLaps(laps)
        wins == LapWindows(laps, car)
        driver_summary == [i \in 1..Len(sorted) |->
            aggregate_lap(wins[i]) @@ [LapNumber |-> sorted[i].LapNumber]]
    IN  MergeLeft(sorted, driver_summary, "LapNumber",
                  [c \in AggCols |-> NaN])

----------------------------------------------------------------------------
(* Inputs of the telemetry aggregation *)

MaxLaps == 2        \* laps of one driver
Times == 0..2       \* lap starts and lap times, in seconds
SampleTimes == 0..3 \* session times of telemetry samples, in seconds
MaxSamples == 3     \* telemetry samples of one driver
MaxWindow == 4      \* samples handed to aggregate_lap on its own
Gears == {3, 4, 5}

Off == << >>        \* value of a variable the specification does not use

SeqsUpTo(S, n) == UNION {[1..k -> S] : k \in 0..n}

\* one telemetry sample (the columns calculate_session_laps_final names)
Sample(t, g) ==
    [RPM |-> R(9000 + 500 * g), Speed |-> R(100 + 10 * t), nGear |-> R(g),
     Throttle |-> R(50 + t), Brake |-> R(t % 2), DRS |-> R(8 * (g % 2)),
     DrivingTime |-> R(t), SessionTime |-> R(t)]

LapInputs ==
    {[i \in 1..Len(s) |->
        [LapNumber |-> R(IF o = "asc" THEN i ELSE Len(s) + 1 - i),
         SessionTime |-> R(s[i][1]), LapTime |-> R(s[i][2])]] :
        s \in {q \in SeqsUpTo(Times \X Times, MaxLaps) :
                 /\ Len(q) >= 1
                 /\ \A i \in 1..(Len(q) - 1) : q[i][1] <= q[i + 1][1]},
        o \in {"asc", "desc"}}

CarInputs ==
    {[i \in 1..Len(s) |-> Sample(s[i], 3 + (s[i] % 2))] :
        s \in {q \in SeqsUpTo(SampleTimes, MaxSamples) :
                 \A i \in 1..(Len(q) - 1) : q[i] <= q[i + 1]}}

WindowInputs ==
    {[i \in 1..Len(s) |-> Sample(i, s[i])] :
        s \in SeqsUpTo(Gears, MaxWindow) \ {<< >>}} \cup {<< >>}

\* the variables of the parts a specification does not use
IdleAgg == driver_laps = Off /\ driver_car = Off /\ lap_windows = Off
           /\ driver_laps_agg = Off
IdleGear == lap_telemetry = Off /\ agg_result = Off
IdleTables == session = Off /\ session_results = Off /\ session_laps = Off
IdleFinal == df = Off /\ df_diff = Off /\ df_final = Off
IdleMl == pc = "off" /\ year_i = 0 /\ s_i = 0 /\ track = 0 /\ final_data = Off
          /\ csv = Off /\ provider = Off /\ raw_data = Off /\ processed = {}

InitAgg ==
    /\ driver_laps \in LapInputs
    /\ driver_car \in CarInputs
    /\ lap_windows = Off
    /\ driver_laps_agg = Off
    /\ IdleGear
    /\ IdleTables
    /\ IdleFinal
    /\ IdleMl

\* one call of calculate_lap_agg_telemetry(driver_laps, driver_car)
CalculateLapAggTelemetry ==
    /\ driver_laps_agg = Off
    /\ driver_laps' = SortLaps(driver_laps)
    /\ lap_windows' = LapWindows(driver_laps, driver_car)
    /\ driver_laps_agg' = calculate_lap_agg_telemetry(driver_laps, driver_car)
    /\ UNCHANGED <<driver_car, gearVars, tableVars, finalVars, mlVars>>

NextAgg == CalculateLapAggTelemetry

SpecAgg == InitAgg /\ [][NextAgg]_vars

InitGear ==
    /\ lap_telemetry \in WindowInputs
    /\ agg_result = Off
    /\ IdleAgg
    /\ IdleTables
    /\ IdleFinal
    /\ IdleMl

\* one call of aggregate_lap(lap_telemetry)
AggregateLap ==
    /\ agg_result = Off
    /\ agg_result' = aggregate_lap(lap_telemetry)
    /\ UNCHANGED <<lap_telemetry, aggVars, tableVars, finalVars, mlVars>>

NextGear == AggregateLap

SpecGear == InitGear /\ [][NextGear]_vars

----------------------------------------------------------------------------
(* C1: calculate_lap_agg_telemetry puts a sample into the aggregate of a   *)
(* lap exactly when prev_boundary < t <= lap_end, where prev_boundary is   *)
(* the minimum lap SessionTime for the first lap in session-time order and *)
(* the lap_end of the lap before for every later lap, also after an empty  *)
(* window: the window kept for every lap, and the aggregate joined onto    *)
(* the lap's row, are those of exactly these samples.                      *)

PrevBoundary(i) ==
    IF i = 1 THEN MinSeq(Col(driver_laps, "SessionTime"))
    ELSE Add(driver_laps[i - 1].SessionTime, driver_laps[i - 1].LapTime)

InWindow(i, r) ==
    /\ Less(PrevBoundary(i), r.SessionTime)
    /\ LessEq(r.SessionTime, Add(driver_laps[i].SessionTime, driver_laps[i].LapTime))

C1_WindowLeftOpenRightClosed ==
    driver_laps_agg # Off =>
        /\ Len(lap_windows) = Len(driver_laps)
        /\ Len(driver_laps_agg) = Len(driver_laps)
        /\ \A i \in 1..Len(driver_laps) :
             LET expected == SelectSeq(driver_car, LAMBDA r : InWindow(i, r))
             IN  /\ lap_windows[i] = expected
                 /\ driver_laps_agg[i].LapNumber = driver_laps[i].LapNumber
                 /\ [c \in AggCols |-> driver_laps_agg[i][c]]
                      = aggregate_lap(expected)

\* a sample at exactly the first lap's lap_end is in the first window and
\* not in the second, a sample at exactly the minimum session time is in no
\* window, and a later lap follows a lap whose window was empty
C1_Witness ==
    /\ driver_laps_agg # Off
    /\ Len(driver_laps) = 2
    /\ \E k \in 1..Len(driver_car) :
         /\ driver_car[k].SessionTime = LapEnd(driver_laps[1])
         /\ \E j \in 1..Len(lap_windows[1]) : lap_windows[1][j] = driver_car[k]
         /\ lap_windows[2] # << >>
         /\ \A j \in 1..Len(lap_windows[2]) : lap_windows[2][j] # driver_car[k]
    /\ \E k \in 1..Len(driver_car) :
         /\ driver_car[k].SessionTime = MinSeq(Col(driver_laps, "SessionTime"))
         /\ \A i \in 1..2 : \A j \in 1..Len(lap_windows[i]) :
              lap_windows[i][j] # driver_car[k]

----------------------------------------------------------------------------
(* C5 as stated: for every non-empty window nGearMode is a most frequent   *)
(* gear of the window and, among the gears that tie for most frequent, the *)
(* one that occurs first in the window ([4,4,3,3] gives 4).                *)

GearsOf(tel) == Col(tel, "nGear")

Occurrences(tel, g) == Cardinality({i \in 1..Len(tel) : tel[i].nGear = g})

MostFrequent(tel) ==
    {tel[i].nGear : i \in {i \in 1..Len(tel) :
        \A j \in 1..Len(tel) :
            Occurrences(tel, tel[j].nGear) <= Occurrences(tel, tel[i].nGear)}}

FirstIndexOf(tel, g) == CHOOSE i \in 1..Len(tel) :
    tel[i].nGear = g /\ \A j \in 1..(i - 1) : tel[j].nGear # g

C5_ModeTieFirstOccurrence ==
    (agg_result # Off /\ lap_telemetry # << >>) =>
        /\ agg_result.nGearMode \in MostFrequent(lap_telemetry)
        /\ \A g \in MostFrequent(lap_telemetry) :
             FirstIndexOf(lap_telemetry, agg_result.nGearMode)
                <= FirstIndexOf(lap_telemetry, g)

(* C5 as amended: for every non-empty window nGearMode is a most frequent  *)
(* gear of the window and, among the gears that tie for most frequent, the *)
(* smallest one ([3,3,4,4] and [4,4,3,3] both give 3).                     *)
C5_ModeTieSmallest ==
    (agg_result # Off /\ lap_telemetry # << >>) =>
        /\ agg_result.nGearMode \in MostFrequent(lap_telemetry)
        /\ \A g \in MostFrequent(lap_telemetry) :
             LessEq(agg_result.nGearMode, g)

\* a window whose first gear ties for most frequent with a smaller gear
\* that occurs later, such as [4,4,3,3]
C5_Witness ==
    /\ agg_result # Off
    /\ Len(lap_telemetry) = 4
    /\ Cardinality(MostFrequent(lap_telemetry)) = 2
    /\ lap_telemetry[1].nGear \in MostFrequent(lap_telemetry)
    /\ Less(agg_result.nGearMode, lap_telemetry[1].nGear)

----------------------------------------------------------------------------
(* The static reference tables (module mappings) and dict look-ups *)

drivers == [a \in {"VER", "HAM"} |-> IF a = "VER" THEN R(1) ELSE R(44)]
teams == [n \in {"Red Bull Racing", "Mercedes"} |->
            IF n = "Red Bull Racing" THEN R(1) ELSE R(2)]
compounds == [n \in {"SOFT", "MEDIUM", "HARD"} |->
                IF n = "SOFT" THEN R(1) ELSE IF n = "MEDIUM" THEN R(2) ELSE R(3)]
track_status == [k \in {R(1), R(2), R(4)} |-> k]
tracks == [l \in {"Suzuka", "Sakhir"} |-> IF l = "Suzuka" THEN R(3) ELSE R(4)]

\* Series.map(dict): a value that is no key of the dict becomes missing
MapDict(dict, k) == IF k \in DOMAIN dict THEN dict[k] ELSE NaN

\* dict[key]: KeyError when the key is absent
HasKey(dict, k) == k \in DOMAIN dict

----------------------------------------------------------------------------
(* helpers.py: convert_time *)

NaT == << >>
Td(ms) == <<ms>>

\* pd.to_timedelta(...).dt.total_seconds()
TotalSeconds(td) == IF td = NaT THEN NaN ELSE Norm(td[1], 1000)

NoFill == NaN       \* fillna_value=None: the missing values stay missing

FillNa(x, fillna_value) == IF IsNaN(x) THEN fillna_value ELSE x

convert_time(data, column, fillna_value) ==
    [i \in 1..Len(data) |->
        [data[i] EXCEPT ![column] = FillNa(TotalSeconds(@), fillna_value)]]

----------------------------------------------------------------------------
(* helpers.py: get_session_results *)

\* a ClassifiedPosition cell holds a string ('1', 'R', ...) or a number
StrCell(s) == <<"str", s>>
IntCell(n) == <<"int", n>>

RetiredFlagAnyCode(cp) == IF cp \in {StrCell("R"), StrCell("D")} THEN 1 ELSE 0

\* Retired = 0, then 1 where ClassifiedPosition == 'R'
RetiredFlag(cp) == IF cp = StrCell("R") THEN 1 ELSE 0

\* 'R' becomes 20, then 'D' becomes 20
CollapsePosition(cp) ==
    LET a == IF cp = StrCell("R") THEN IntCell(20) ELSE cp
    IN  IF a = StrCell("D") THEN IntCell(20) ELSE a

\* session_results.at[session_results.index[0], 'Time'] = 0.0
LeaderToZero(tbl) == [i \in 1..Len(tbl) |->
                        IF i = 1 THEN [tbl[i] EXCEPT !.Time = R(0)] ELSE tbl[i]]

get_session_results(ses) ==
    LET flagged == [i \in 1..Len(ses.results) |->
            [ses.results[i] EXCEPT !.ClassifiedPosition = CollapsePosition(@)]
            @@ [Retired |-> RetiredFlag(ses.results[i].ClassifiedPosition)]]
        timed == LeaderToZero(convert_time(flagged, "Time", R(200)))
    IN  [i \in 1..Len(timed) |->
            [Driver        |-> timed[i].Abbreviation,
             TeamId        |-> timed[i].TeamId,
             Country       |-> ses.event.Country,
             FinalPosition |-> timed[i].ClassifiedPosition,
             GridPosition  |-> timed[i].GridPosition,
             RaceTimeDiff  |-> timed[i].Time,
             Points        |-> timed[i].Points,
             Retired       |-> timed[i].Retired,
             Location      |-> ses.event.Location,
             Year          |-> R(ses.date.year),
             Track         |-> MapDict(tracks, ses.event.Location)]]

----------------------------------------------------------------------------
(* helpers.py: get_session_laps *)

\* astype(float) of the TrackStatus strings the provider sends
StatusFloat == [s \in {"1", "2", "4", "12"} |->
                  IF s = "1" THEN R(1) ELSE IF s = "2" THEN R(2)
                  ELSE IF s = "4" THEN R(4) ELSE R(12)]

\* replace('', np.nan), astype(float), map(mappings.track_status)
TrackStatusId(s) == IF s = "" THEN NaN ELSE MapDict(track_status, StatusFloat[s])

\* SpeedFL and SpeedST are filled in place; SpeedI1 and SpeedI2 are then
\* assigned the filled SpeedST column
SpeedTraps(row) ==
    [row EXCEPT !.SpeedFL = FillNa(row.SpeedFL, R(0)),
                !.SpeedST = FillNa(row.SpeedST, R(0)),
                !.SpeedI1 = FillNa(FillNa(row.SpeedST, R(0)), R(0)),
                !.SpeedI2 = FillNa(FillNa(row.SpeedST, R(0)), R(0))]

RenameLapStart(row) ==
    [c \in (DOMAIN row \ {"LapStartTime"}) \cup {"SessionTime"} |->
        IF c = "SessionTime" THEN row.LapStartTime ELSE row[c]]

get_session_laps(ses) ==
    LET t1 == convert_time(ses.laps, "LapTime", R(0))
        t2 == convert_time(t1, "Sector1Time", R(0))
        t3 == convert_time(t2, "Sector2Time", R(0))
        t4 == convert_time(t3, "Sector3Time", R(0))
        t5 == convert_time(t4, "LapStartTime", R(0))
        t6 == convert_time(t5, "PitInTime", R(0))
        t7 == convert_time(t6, "PitOutTime", R(0))
        mapped == [i \in 1..Len(t7) |->
            RenameLapStart(
                [SpeedTraps(t7[i]) EXCEPT
                    !.Position = FillNa(@, R(-1)),
                    !.FreshTyre = IF @ THEN R(1) ELSE R(0),
                    !.Compound = MapDict(compounds, @),
                    !.Team = MapDict(teams, @),
                    !.Driver = MapDict(drivers, @),
                    !.TrackStatus = TrackStatusId(@)])]
    IN  SortLaps(mapped)

----------------------------------------------------------------------------
(* Inputs of the table builders *)

MaxResults == 3     \* rows of session.results
MaxLapRows == 2     \* rows of session.laps handed to get_session_laps on its own

Abbreviations == <<"VER", "HAM", "NEW", "ROO", "TST">>
TeamOf == [a \in {"VER", "HAM", "NEW", "ROO", "TST"} |->
             IF a = "VER" THEN "Red Bull Racing"
             ELSE IF a = "HAM" THEN "Mercedes" ELSE "Cadillac"]
PositionStrings == <<"1", "2", "3", "4", "5">>

\* row i of session.results: how it is classified and whether it has a Time
ResultRow(i, class, timed) ==
    [Abbreviation       |-> Abbreviations[i],
     TeamId             |-> TeamOf[Abbreviations[i]],
     CountryCode        |-> "XXX",
     ClassifiedPosition |-> StrCell(IF class = "F" THEN PositionStrings[i] ELSE class),
     GridPosition       |-> R(i),
     Time               |-> IF ~timed THEN NaT
                            ELSE IF i = 1 THEN Td(6861964) ELSE Td(2000 * i + 500),
     Points             |-> R(IF class = "F" THEN 25 - 7 * i ELSE 0)]

\* one row of session.laps
RawLap(drv, n, start, lap, pit_in, pit_out, compound, speed) ==
    [LapNumber |-> R(n), Driver |-> drv, LapTime |-> lap, Compound |-> compound,
     TyreLife |-> R(n), Stint |-> R(1), PitInTime |-> pit_in,
     PitOutTime |-> pit_out, FreshTyre |-> (n = 1), Team |-> TeamOf[drv],
     TrackStatus |-> IF n = 1 THEN "" ELSE "1",
     Position |-> IF lap = NaT THEN NaN ELSE R(1),
     Sector1Time |-> IF lap = NaT THEN NaT ELSE Td(lap[1] \div 4),
     Sector2Time |-> IF lap = NaT THEN NaT ELSE Td(lap[1] \div 4),
     Sector3Time |-> IF lap = NaT THEN NaT ELSE Td(lap[1] \div 2),
     SpeedI1 |-> speed[1], SpeedI2 |-> speed[2], SpeedFL |-> speed[3],
     SpeedST |-> speed[4], LapStartTime |-> start]

\* the four speed-trap readings of a lap, each present or absent
SpeedReadings == {NaN, R(281)} \X {NaN, R(295)} \X {NaN, R(277)} \X {NaN, R(310)}

Event(loc) == [Country |-> "Japan", Location |-> loc]

ResultInputs ==
    {[i \in 1..Len(s) |-> ResultRow(i, s[i][1], s[i][2])] :
        s \in SeqsUpTo({"F", "R", "D"} \X BOOLEAN, MaxResults) \ {<< >>}}

LapTableInputs ==
    {[i \in 1..Len(s) |->
        RawLap("VER", i, IF i = 1 THEN NaT ELSE Td(90500 * (Len(s) + 1 - i)),
               Td(90500), NaT, NaT, s[i][1], s[i][2])] :
        s \in SeqsUpTo({"SOFT", "HYPERSOFT"} \X SpeedReadings, MaxLapRows) \ {<< >>}}

InitResults ==
    /\ session \in {[results |-> r, laps |-> << >>, event |-> Event("Suzuka"),
                     date |-> [year |-> 2025]] : r \in ResultInputs}
    /\ session_results = Off
    /\ session_laps = Off
    /\ IdleAgg /\ IdleGear /\ IdleFinal /\ IdleMl

\* one call of get_session_results(session)
GetSessionResults ==
    /\ session_results = Off
    /\ session_results' = get_session_results(session)
    /\ UNCHANGED <<session, session_laps, aggVars, gearVars, finalVars, mlVars>>

NextResults == GetSessionResults

SpecResults == InitResults /\ [][NextResults]_vars

InitLaps ==
    /\ session \in {[results |-> << >>, laps |-> l, event |-> Event("Suzuka"),
                     date |-> [year |-> 2025]] : l \in LapTableInputs}
    /\ session_results = Off
    /\ session_laps = Off
    /\ IdleAgg /\ IdleGear /\ IdleFinal /\ IdleMl

\* one call of get_session_laps(session)
GetSessionLaps ==
    /\ session_laps = Off
    /\ session_laps' = get_session_laps(session)
    /\ UNCHANGED <<session, session_results, aggVars, gearVars, finalVars, mlVars>>

NextLaps == GetSessionLaps

SpecLaps == InitLaps /\ [][NextLaps]_vars

----------------------------------------------------------------------------
(* C4 as stated: Retired is 1 exactly for the rows whose raw                *)
(* ClassifiedPosition is 'R' (a 'D' row gets FinalPosition 20, Retired 0),  *)
(* and every 'R' row ends with Retired = 1, FinalPosition = 20 and          *)
(* RaceTimeDiff = 200.0 whatever its raw Time and its place in the table.   *)

RetiredOnlyFromR(i) ==
    LET raw == session.results[i]
        out == session_results[i]
    IN  /\ out.Driver = raw.Abbreviation
        /\ out.Retired = 1 <=> raw.ClassifiedPosition = StrCell("R")
        /\ out.Retired = 0 <=> raw.ClassifiedPosition # StrCell("R")
        /\ raw.ClassifiedPosition = StrCell("D") => out.FinalPosition = IntCell(20)
        /\ raw.ClassifiedPosition = StrCell("R") => out.FinalPosition = IntCell(20)

C4_RetiredRowAlways200 ==
    session_results # Off =>
        \A i \in 1..Len(session.results) :
            /\ RetiredOnlyFromR(i)
            /\ session.results[i].ClassifiedPosition = StrCell("R")
                 => session_results[i].RaceTimeDiff = R(200)

(* C4 as amended: Retired is 1 exactly for the rows whose raw               *)
(* ClassifiedPosition is 'R' (a 'D' row gets FinalPosition 20, Retired 0),  *)
(* and every 'R' row ends with Retired = 1 and FinalPosition = 20; its      *)
(* RaceTimeDiff is 0.0 when it is the first row of the provider's table,    *)
(* otherwise 200.0 when its raw Time is missing, otherwise its raw Time in  *)
(* seconds.                                                                 *)
C4_RetiredRow200WhenNoTime ==
    session_results # Off =>
        /\ Len(session_results) = Len(session.results)
        /\ \A i \in 1..Len(session.results) :
            /\ RetiredOnlyFromR(i)
            /\ session.results[i].ClassifiedPosition = StrCell("R") =>
                 LET gap == session_results[i].RaceTimeDiff
                     raw == session.results[i].Time
                 IN  IF i = 1 THEN gap = R(0)
                     ELSE IF raw = NaT THEN gap = R(200)
                     ELSE gap[2] > 0 /\ gap[1] * 1000 = raw[1] * gap[2]

\* a retired row with no Time that is not the leader (200.0), a retired
\* leader, and a 'D' row
C4_Witness ==
    /\ session_results # Off
    /\ Len(session_results) = 3
    /\ session.results[1].ClassifiedPosition = StrCell("R")
    /\ session_results[1].RaceTimeDiff = R(0)
    /\ session.results[2].ClassifiedPosition = StrCell("R")
    /\ session.results[2].Time = NaT
    /\ session_results[2].RaceTimeDiff = R(200)
    /\ session_results[2].Retired = 1
    /\ session.results[3].ClassifiedPosition = StrCell("D")
    /\ session_results[3].Retired = 0

----------------------------------------------------------------------------
(* C10: in get_session_laps each of SpeedI1, SpeedI2, SpeedFL and SpeedST   *)
(* of a lap keeps its own raw reading when that reading is present and is   *)
(* 0 only when it is absent; no speed-trap field takes its value from       *)
(* another field.                                                           *)

C10_SpeedTrapKeepsOwnReading ==
    session_laps # Off =>
        \A i \in 1..Len(session.laps) : \A j \in 1..Len(session_laps) :
            session_laps[j].LapNumber = session.laps[i].LapNumber =>
                \A c \in {"SpeedI1", "SpeedI2", "SpeedFL", "SpeedST"} :
                    session_laps[j][c] = IF IsNaN(session.laps[i][c]) THEN R(0)
                                         ELSE session.laps[i][c]

----------------------------------------------------------------------------
(* helpers.py: final_preprocessing and convert_to_diff *)

LapCeiling == 80

DiffColSeq == <<"RpmAvg", "RpmMin", "RpmMax", "SpeedAvg", "SpeedMedian",
                "SpeedMin", "SpeedMax", "ThrottleAvg", "ThrottleMin",
                "ThrottleMax", "nGearAvg", "nGearMin", "nGearMax", "BrakeCount",
                "DrsCount", "Sector1Time", "Sector2Time", "Sector3Time",
                "SpeedI1", "SpeedI2", "SpeedFL", "SpeedST", "SessionTime",
                "LapTime">>

DiffCols == {DiffColSeq[k] : k \in 1..Len(DiffColSeq)}

NonPitAny(row) == TRUE

\* (PitInTime == 0) & (PitOutTime == 0)
NonPit(row) == row.PitInTime = R(0) /\ row.PitOutTime = R(0)

\* astype(float) of the counts (a count is already held as a rational) and
\* astype(int) of the pit times
CastTypes(tbl) ==
    [i \in 1..Len(tbl) |->
        [tbl[i] EXCEPT !.PitInTime = Trunc(@), !.PitOutTime = Trunc(@)]]

YearLocations(tbl) == {<<tbl[i].Year, tbl[i].Location>> : i \in 1..Len(tbl)}

\* lap_avg of one (year, location): the mean of every column over the
\* rows of location_dff
LapAvg(tbl, yl) ==
    LET location_dff == SelectSeq(tbl, LAMBDA r :
            r.Year = yl[1] /\ r.Location = yl[2] /\ NonPit(r))
        avg(k) == DiffColSeq[k] :> Mean(Col(location_dff, DiffColSeq[k]))
    IN  avg(1) @@ avg(2) @@ avg(3) @@ avg(4) @@ avg(5) @@ avg(6) @@ avg(7)
        @@ avg(8) @@ avg(9) @@ avg(10) @@ avg(11) @@ avg(12) @@ avg(13)
        @@ avg(14) @@ avg(15) @@ avg(16) @@ avg(17) @@ avg(18) @@ avg(19)
        @@ avg(20) @@ avg(21) @@ avg(22) @@ avg(23) @@ avg(24)

RECURSIVE LapAvgs(_, _)
\* the lap_avg of every (year, location) of yls
LapAvgs(tbl, yls) ==
    IF yls = {} THEN << >>
    ELSE LET yl == CHOOSE x \in yls : TRUE
         IN  (yl :> LapAvg(tbl, yl)) @@ LapAvgs(tbl, yls \ {yl})

\* location_df[col] - lap_avg[col] for every col of lap_avg
SubtractAvg(row, lap_avg) ==
    [c \in DOMAIN row |-> IF c \in DiffCols THEN Sub(row[c], lap_avg[c]) ELSE row[c]]

convert_to_diff(tbl) ==
    LET df_new == CastTypes(tbl)
        lap_avg == LapAvgs(df_new, YearLocations(df_new))
    IN  [i \in 1..Len(df_new) |->
            SubtractAvg(df_new[i], lap_avg[<<df_new[i].Year, df_new[i].Location>>])]

DropNothing(tbl) == tbl

\* dropna(subset=['RpmMin', 'SpeedMin'], how='all')
DropNoTelemetry(tbl) ==
    SelectSeq(tbl, LAMBDA r : ~(IsNaN(r.RpmMin) /\ IsNaN(r.SpeedMin)))

\* int(cell) of a FinalPosition cell; the strings are the provider's
PositionInt == [s \in {"1", "2", "3", "4", "5"} |->
                  IF s = "1" THEN 1 ELSE IF s = "2" THEN 2
                  ELSE IF s = "3" THEN 3 ELSE IF s = "4" THEN 4 ELSE 5]

Castable(cell) == cell[1] = "int" \/ (cell[1] = "str" /\ cell[2] \in DOMAIN PositionInt)

\* 'W' becomes 20; astype(int) of the whole column, left as it is when a
\* cell cannot be converted (ValueError)
FinalPositionInt(tbl) ==
    LET w == [i \in 1..Len(tbl) |->
                [tbl[i] EXCEPT !.FinalPosition =
                    IF @ = StrCell("W") THEN IntCell(20) ELSE @]]
    IN  IF \A i \in 1..Len(w) : Castable(w[i].FinalPosition)
        THEN [i \in 1..Len(w) |->
                [w[i] EXCEPT !.FinalPosition =
                    IF @[1] = "int" THEN @ ELSE IntCell(PositionInt[@[2]])]]
        ELSE w

RaceKey(r) == <<r.Year, r.Location, r.Driver>>

ValidRaceStrict(lap_count) == lap_count < LapCeiling

\* lap_counts['LapCount'] <= 80
ValidRace(lap_count) == lap_count <= LapCeiling

\* groupby(['Year', 'Location', 'Driver']).size(), the groups that pass,
\* and the inner merge with them; groupby leaves out a group with a
\* missing Driver
KeepValidRaces(tbl) ==
    LET keys == {RaceKey(tbl[i]) : i \in 1..Len(tbl)}
        lap_counts == [k \in keys |->
            Cardinality({i \in 1..Len(tbl) : RaceKey(tbl[i]) = k})]
        valid_races == {k \in keys : ~IsNaN(k[3]) /\ ValidRace(lap_counts[k])}
    IN  SelectSeq(tbl, LAMBDA r : RaceKey(r) \in valid_races)

LapNumberInt(tbl) == [i \in 1..Len(tbl) |-> [tbl[i] EXCEPT !.LapNumber = Trunc(@)]]

final_preprocessing(tbl) ==
    convert_to_diff(LapNumberInt(KeepValidRaces(FinalPositionInt(DropNoTelemetry(tbl)))))

----------------------------------------------------------------------------
(* Inputs of the final stage: tables of joined lap rows *)

MaxUncovered == 1   \* laps of one group that have no telemetry
MaxCovered == 2     \* laps with telemetry of one group handed to convert_to_diff

\* the (year, location, driver) groups of an input table, in table order
GroupKeys == <<<<R(2025), "Suzuka", R(1)>>, <<R(2025), "Suzuka", R(44)>>,
               <<R(2025), "Sakhir", R(1)>>>>

\* groups in a table handed to final_preprocessing, and the numbers of laps
\* with telemetry a group of such a table can have
NGroupsFinal == {1, 2}
CoveredCounts == {2, LapCeiling, LapCeiling + 1}

ColNo == [c \in DiffCols |-> CHOOSE k \in 1..Len(DiffColSeq) : DiffColSeq[k] = c]

PitIn(pit, n) ==
    IF pit = "all" \/ (pit = "first" /\ n = 1) THEN Norm(7323 + 180 * n, 2)
    ELSE IF pit = "early" /\ n = 1 THEN Norm(1, 2)
    ELSE R(0)

\* lap n of group g: a joined row, with telemetry coverage or without
JoinedRow(g, n, covered, pit) ==
    [c \in DiffCols |->
        IF c \in StatCols /\ ~covered THEN NaN
        ELSE IF c \in {"BrakeCount", "DrsCount"} /\ ~covered THEN R(0)
        ELSE Norm(100 * ColNo[c] + 7 * n + 3 * g, 1 + (n % 2))]
    @@ [Year |-> GroupKeys[g][1], Location |-> GroupKeys[g][2],
        Driver |-> GroupKeys[g][3], LapNumber |-> R(n),
        PitInTime |-> PitIn(pit, n), PitOutTime |-> R(0),
        nGearMode |-> IF covered THEN R(3 + (n % 2)) ELSE NaN,
        FinalPosition |-> IF g = 1 THEN StrCell("W") ELSE StrCell("2")]

\* the covered laps of a group come first, the laps without telemetry last
GroupRows(g, sh) ==
    [n \in 1..(sh.cov + sh.uncov) |-> JoinedRow(g, n, n <= sh.cov, sh.pit)]

TablesOf(shapes, groups) ==
    {Flatten([g \in 1..Len(s) |-> GroupRows(g, s[g])]) :
        s \in {q \in SeqsUpTo(shapes, Len(GroupKeys)) : Len(q) \in groups}}

DiffInputs ==
    TablesOf({sh \in [cov : 1..MaxCovered, uncov : {0, 1},
                      pit : {"none", "first", "early", "all"}] :
                 sh.uncov = 0 \/ sh.pit \in {"none", "first"}},
             1..Len(GroupKeys))

FinalInputs ==
    TablesOf([cov : CoveredCounts, uncov : 0..MaxUncovered,
              pit : {"none", "first"}], NGroupsFinal)

InitDiff ==
    /\ df \in DiffInputs
    /\ df_diff = Off
    /\ df_final = Off
    /\ IdleAgg /\ IdleGear /\ IdleTables /\ IdleMl

\* one call of convert_to_diff(df)
ConvertToDiff ==
    /\ df_diff = Off
    /\ df_diff' = convert_to_diff(df)
    /\ UNCHANGED <<df, df_final, aggVars, gearVars, tableVars, mlVars>>

NextDiff == ConvertToDiff

SpecDiff == InitDiff /\ [][NextDiff]_vars

InitFinal ==
    /\ df \in FinalInputs
    /\ df_diff = Off
    /\ df_final = Off
    /\ IdleAgg /\ IdleGear /\ IdleTables /\ IdleMl

\* one call of final_preprocessing(df)
FinalPreprocessing ==
    /\ df_final = Off
    /\ df_final' = final_preprocessing(df)
    /\ UNCHANGED <<df, df_diff, aggVars, gearVars, tableVars, mlVars>>

NextFinal == FinalPreprocessing

SpecFinal == InitFinal /\ [][NextFinal]_vars

----------------------------------------------------------------------------
(* C3: in convert_to_diff, for every (year, location) group and every       *)
(* normalised metric, the baseline is the mean of the metric over exactly   *)
(* the group's laps whose PitInTime and PitOutTime columns are 0, and every *)
(* lap of the group, pit-affected laps included, has its value replaced by  *)
(* value - baseline; the laps of other groups do not enter the baseline.    *)
(* (The pit columns are those of the returned table, cast to whole          *)
(* seconds; a missing reading does not enter the mean.)                     *)

InBaseline(out, j, yl) ==
    /\ out[j].Year = yl[1] /\ out[j].Location = yl[2]
    /\ out[j].PitInTime = R(0) /\ out[j].PitOutTime = R(0)

RECURSIVE BaselineSum(_, _, _, _)
\* sum and number of the readings of column c of df in rows a..b that are
\* laps of yl with both pit columns of the returned table 0
BaselineSum(a, b, yl, c) ==
    IF a > b THEN <<R(0), 0>>
    ELSE IF a = b
    THEN IF InBaseline(df_diff, a, yl) /\ ~IsNaN(df[a][c])
         THEN <<df[a][c], 1>> ELSE <<R(0), 0>>
    ELSE LET m == (a + b) \div 2
             l == BaselineSum(a, m, yl, c)
             h == BaselineSum(m + 1, b, yl, c)
         IN  <<Add(l[1], h[1]), l[2] + h[2]>>

C3_DeltaFromNonPitBaseline ==
    df_diff # Off =>
        /\ Len(df_diff) = Len(df)
        /\ \A i \in 1..Len(df) :
             /\ RaceKey(df_diff[i]) = RaceKey(df[i])
             /\ df_diff[i].LapNumber = df[i].LapNumber
        /\ \A yl \in YearLocations(df) : \A c \in DiffCols :
             LET s == BaselineSum(1, Len(df), yl, c)
             IN  \A i \in 1..Len(df) :
                   (df[i].Year = yl[1] /\ df[i].Location = yl[2]) =>
                       IF IsNaN(df[i][c]) \/ s[2] = 0 THEN IsNaN(df_diff[i][c])
                       ELSE df_diff[i][c] = Sub(df[i][c], DivInt(s[1], s[2]))

\* two drivers at one location, one of them with a pit-affected lap whose
\* value moved by the baseline of the laps that are not pit-affected
C3_Witness ==
    /\ df_diff # Off
    /\ Len(df) = 4
    /\ df[1].Driver # df[3].Driver
    /\ df[1].PitInTime # R(0) /\ df_diff[1].PitInTime # R(0)
    /\ \A i \in 2..4 : df_diff[i].PitInTime = R(0)
    /\ ~IsNaN(df_diff[1].RpmAvg)
    /\ df_diff[1].RpmAvg # df[1].RpmAvg

----------------------------------------------------------------------------
(* C6 as stated: in final_preprocessing a (year, location, driver) group    *)
(* with more than 80 recorded laps has no row in the output and a group     *)
(* with at most 80 recorded laps is retained in full, whatever the other    *)
(* groups.                                                                  *)

RowsOf(tbl, k) == {i \in 1..Len(tbl) : RaceKey(tbl[i]) = k}

LapsOf(tbl, k) == {tbl[i].LapNumber : i \in RowsOf(tbl, k)}

Covered(r) == ~IsNaN(r.RpmMin) \/ ~IsNaN(r.SpeedMin)

----------------------------------------------------------------------------
(* helpers.py: get_weather_data and the as-of join of ml.py *)

WeatherCols == {"AirTemp", "Humidity", "Pressure", "Rainfall", "TrackTemp",
                "WindDirection", "WindSpeed"}

RenameTime(row) ==
    [c \in (DOMAIN row \ {"Time"}) \cup {"SessionTime"} |->
        IF c = "SessionTime" THEN row.Time ELSE row[c]]

get_weather_data(ses) ==
    LET timed == convert_time(ses.weather_data, "Time", NoFill)
    IN  SortLaps([i \in 1..Len(timed) |->
            RenameTime([timed[i] EXCEPT !.Rainfall = IF @ THEN R(1) ELSE R(0)])])

Distance(x, y) == IF Less(x, y) THEN Sub(y, x) ELSE Sub(x, y)

\* the row of weather nearest in SessionTime; of two equally near rows the
\* earlier one
Nearest(weather, time) ==
    CHOOSE k \in 1..Len(weather) :
        \A j \in 1..Len(weather) :
            LET dk == Distance(weather[k].SessionTime, time)
                dj == Distance(weather[j].SessionTime, time)
            IN  Less(dk, dj) \/ (dk = dj /\ k <= j)

\* pd.merge_asof(laps, weather, on="SessionTime", direction="nearest")
MergeAsofNearest(laps, weather) ==
    [i \in 1..Len(laps) |->
        laps[i] @@ [c \in WeatherCols |->
            IF weather = << >> THEN NaN
            ELSE weather[Nearest(weather, laps[i].SessionTime)][c]]]

----------------------------------------------------------------------------
(* helpers.py: calculate_session_laps_final *)

RECURSIVE Unique(_)
\* Series.unique(): the values in order of first appearance
Unique(s) ==
    IF s = << >> THEN << >>
    ELSE LET u == Unique(SubSeq(s, 1, Len(s) - 1))
         IN  IF \E i \in 1..Len(u) : u[i] = s[Len(s)] THEN u
             ELSE Append(u, s[Len(s)])

\* session.laps.pick_drivers(drv).get_car_data() raises KeyError
NoCarData(ses, drv) == drv \notin DOMAIN ses.car_data

\* the telemetry of one driver after conversion, sorting, dropping Source
\* and Date, renaming, and Brake as 0 / 1
DriverCar(ses, drv) ==
    LET timed == convert_time(convert_time(ses.car_data[drv], "Time", NoFill),
                              "SessionTime", NoFill)
        sorted == SortLaps(timed)
    IN  [i \in 1..Len(sorted) |->
            [RPM |-> sorted[i].RPM, Speed |-> sorted[i].Speed,
             nGear |-> sorted[i].nGear, Throttle |-> sorted[i].Throttle,
             Brake |-> IF sorted[i].Brake THEN R(1) ELSE R(0),
             DRS |-> sorted[i].DRS, DrivingTime |-> sorted[i].Time,
             SessionTime |-> sorted[i].SessionTime]]

SessionDrivers(ses) == Unique(Col(ses.laps, "Driver"))

\* mappings.drivers[drv] raises KeyError for a driver with car data
RaisesKeyError(ses) ==
    \E i \in 1..Len(SessionDrivers(ses)) :
        /\ ~NoCarData(ses, SessionDrivers(ses)[i])
        /\ ~HasKey(drivers, SessionDrivers(ses)[i])

\* the laps of one driver with their aggregates; nothing for a driver
\* whose car data cannot be fetched
DriverLapsFinal(ses, laps, drv) ==
    IF NoCarData(ses, drv) THEN << >>
    ELSE calculate_lap_agg_telemetry(
            SelectSeq(laps, LAMBDA r : r.Driver = drivers[drv]),
            DriverCar(ses, drv))

calculate_session_laps_final(ses, laps) ==
    Flatten([i \in 1..Len(SessionDrivers(ses)) |->
                DriverLapsFinal(ses, laps, SessionDrivers(ses)[i])])

----------------------------------------------------------------------------
(* helpers.py: add_static_info *)

\* drivers.json: abbreviation -> age, GPs Entered, points
drivers_json ==
    [a \in {"VER", "HAM"} |->
        IF a = "VER" THEN [age |-> 27, gps |-> 209, points |-> 3023]
        ELSE [age |-> 40, gps |-> 356, points |-> 4862]]

StaticInfo(drv) ==
    IF drv \in DOMAIN drivers_json
    THEN [Age |-> R(drivers_json[drv].age),
          Exprience |-> R(drivers_json[drv].gps),
          Achievements |-> R(drivers_json[drv].points),
          AchievementsByTime |-> Norm(drivers_json[drv].points, drivers_json[drv].gps)]
    ELSE [Age |-> NaN, Exprience |-> NaN, Achievements |-> NaN,
          AchievementsByTime |-> NaN]

LeakCols == {"Points", "RaceTimeDiff", "Retired"}

add_static_info(results) ==
    [i \in 1..Len(results) |->
        LET with_info == results[i] @@ StaticInfo(results[i].Driver)
        IN  [c \in DOMAIN with_info \ LeakCols |->
                IF c = "Driver" THEN MapDict(drivers, with_info.Driver)
                ELSE with_info[c]]]

ResultCols == {"TeamId", "Country", "FinalPosition", "GridPosition", "Location",
               "Year", "Track", "Age", "Exprience", "Achievements",
               "AchievementsByTime"}

----------------------------------------------------------------------------
(* ml.py: the body of the track loop *)

SessionLapsFinal(ses) ==
    calculate_session_laps_final(ses,
        MergeAsofNearest(get_session_laps(ses), get_weather_data(ses)))

\* session_laps_final_with_result
JoinedWithResult(ses) ==
    MergeLeft(SessionLapsFinal(ses), add_static_info(get_session_results(ses)),
              "Driver", [c \in ResultCols |-> NaN])

\* pd.concat([final_data, rows]) if not final_data.empty else rows.copy()
Accumulate(acc, rows) == IF acc = << >> THEN rows ELSE acc \o rows

----------------------------------------------------------------------------
(* ml.py: the sessions the provider can hold *)

MaxSessionLaps == 3     \* laps of every driver of a session

LapStart(k, n) == 90000 * (n - 1) + 100 * k

\* the laps of the k-th driver of a session
SessionLaps(drv, k, pit) ==
    [n \in 1..MaxSessionLaps |->
        RawLap(drv, n, Td(LapStart(k, n)), Td(90000),
               IF pit = "all" THEN Td(LapStart(k, n) + 80000) ELSE NaT, NaT,
               IF n = 1 THEN "SOFT" ELSE "HYPERSOFT",
               <<R(281), NaN, R(277), R(310)>>)]

RawSample(time, gear) ==
    [Date |-> "2025-04-06", RPM |-> R(9000 + 500 * gear),
     Speed |-> R(100 + time \div 1000), nGear |-> R(gear),
     Throttle |-> R(50 + gear), Brake |-> (gear = 3), DRS |-> R(8 * (gear % 2)),
     Source |-> "car", Time |-> Td(time), SessionTime |-> Td(time)]

\* two samples in each of the first laps_covered laps of the k-th driver,
\* the second one at the very end of the lap
CarData(k, laps_covered) ==
    Flatten([n \in 1..laps_covered |->
        <<RawSample(LapStart(k, n) + 45000, 3 + (n % 2)),
          RawSample(LapStart(k, n) + 90000, 4 + k)>>])

WeatherData ==
    <<[Time |-> Td(0), AirTemp |-> R(21), Humidity |-> R(40), Pressure |-> R(1012),
       Rainfall |-> FALSE, TrackTemp |-> R(33), WindDirection |-> R(180),
       WindSpeed |-> R(2)],
      [Time |-> Td(120000), AirTemp |-> R(20), Humidity |-> R(45),
       Pressure |-> R(1012), Rainfall |-> TRUE, TrackTemp |-> R(30),
       WindDirection |-> R(170), WindSpeed |-> R(3)]>>

\* a race at loc of VER and a second driver (HAM, or NEW, who is in no
\* reference table); cover says which telemetry the provider has
Session(loc, second, cover, pit) ==
    [results |-> <<ResultRow(1, "F", TRUE),
                   IF second = "HAM" THEN ResultRow(2, "R", FALSE)
                   ELSE ResultRow(3, "F", TRUE)>>,
     laps |-> SessionLaps("VER", 1, pit) \o SessionLaps(second, 2, pit),
     weather_data |-> WeatherData,
     car_data |->
        IF cover = "none" THEN << >>
        ELSE IF cover = "second" THEN (second :> CarData(2, MaxSessionLaps))
        ELSE ("VER" :> CarData(1, IF cover = "all" THEN MaxSessionLaps
                                  ELSE MaxSessionLaps - 1))
             @@ (second :> CarData(2, MaxSessionLaps)),
     event |-> Event(loc),
     date |-> [year |-> 2025]]

Sessions ==
    {Session(loc, second, cover, pit) :
        loc \in {"Suzuka", "Sakhir"}, second \in {"HAM", "NEW"},
        cover \in {"all", "partial", "second", "none"}, pit \in {"none", "all"}}

NoSession == << >>      \* get_session raises ValueError

----------------------------------------------------------------------------
(* ml.py: the year / session / track loops *)

years == <<2025>>
sessions == <<"R">>
TrackStart == 3
TrackStop == 5

Tracks == TrackStart..(TrackStop - 1)

InitMl ==
    /\ pc = "year"
    /\ year_i = 1
    /\ s_i = 0
    /\ track = 0
    /\ final_data = << >>
    /\ csv = << >>
    /\ provider \in [Tracks -> Sessions \cup {NoSession}]
    /\ raw_data = << >>
    /\ processed = {}
    /\ IdleAgg /\ IdleGear /\ IdleTables /\ IdleFinal

notMl == <<aggVars, gearVars, tableVars, finalVars>>

\* for year in years: final_data = pd.DataFrame()
YearNext ==
    /\ pc = "year" /\ year_i <= Len(years)
    /\ final_data' = << >>
    /\ raw_data' = << >>
    /\ processed' = {}
    /\ s_i' = 1
    /\ pc' = "session"
    /\ UNCHANGED <<year_i, track, csv, provider, notMl>>

YearsDone ==
    /\ pc = "year" /\ year_i > Len(years)
    /\ pc' = "done"
    /\ UNCHANGED <<year_i, s_i, track, final_data, csv, provider, raw_data,
                   processed, notMl>>

\* for s in sessions: for track in range(3, 5)
SessionNext ==
    /\ pc = "session" /\ s_i <= Len(sessions)
    /\ track' = TrackStart
    /\ pc' = "track"
    /\ UNCHANGED <<year_i, s_i, final_data, csv, provider, raw_data, processed,
                   notMl>>

SessionsDone ==
    /\ pc = "session" /\ s_i > Len(sessions)
    /\ year_i' = year_i + 1
    /\ pc' = "year"
    /\ UNCHANGED <<s_i, track, final_data, csv, provider, raw_data, processed,
                   notMl>>

TracksDone ==
    /\ pc = "track" /\ track >= TrackStop
    /\ s_i' = s_i + 1
    /\ pc' = "session"
    /\ UNCHANGED <<year_i, track, final_data, csv, provider, raw_data,
                   processed, notMl>>

TrackFetchFailsContinue ==
    /\ pc = "track" /\ track < TrackStop
    /\ provider[track] = NoSession
    /\ track' = track + 1
    /\ UNCHANGED <<pc, year_i, s_i, final_data, csv, provider, raw_data,
                   processed, notMl>>

\* except ValueError: break
TrackFetchFails ==
    /\ pc = "track" /\ track < TrackStop
    /\ provider[track] = NoSession
    /\ s_i' = s_i + 1
    /\ pc' = "session"
    /\ UNCHANGED <<year_i, track, final_data, csv, provider, raw_data,
                   processed, notMl>>

\* calculate_session_laps_final raises KeyError: the script ends
TrackKeyError ==
    /\ pc = "track" /\ track < TrackStop
    /\ provider[track] # NoSession
    /\ RaisesKeyError(provider[track])
    /\ pc' = "KeyError"
    /\ UNCHANGED <<year_i, s_i, track, final_data, csv, provider, raw_data,
                   processed, notMl>>

\* if session_laps_final.empty: continue
TrackEmpty ==
    /\ pc = "track" /\ track < TrackStop
    /\ provider[track] # NoSession
    /\ ~RaisesKeyError(provider[track])
    /\ SessionLapsFinal(provider[track]) = << >>
    /\ track' = track + 1
    /\ UNCHANGED <<pc, year_i, s_i, final_data, csv, provider, raw_data,
                   processed, notMl>>

\* the session is joined, accumulated, cleaned and written
TrackAccumulate ==
    /\ pc = "track" /\ track < TrackStop
    /\ provider[track] # NoSession
    /\ ~RaisesKeyError(provider[track])
    /\ SessionLapsFinal(provider[track]) # << >>
    /\ final_data' = final_preprocessing(
                        Accumulate(final_data, JoinedWithResult(provider[track])))
    /\ csv' = final_data'
    /\ raw_data' = raw_data \o JoinedWithResult(provider[track])
    /\ processed' = processed \cup {track}
    /\ track' = track + 1
    /\ UNCHANGED <<pc, year_i, s_i, provider, notMl>>

NextMl ==
    \/ YearNext \/ YearsDone \/ SessionNext \/ SessionsDone \/ TracksDone
    \/ TrackFetchFails \/ TrackKeyError \/ TrackEmpty \/ TrackAccumulate

SpecMl == InitMl /\ [][NextMl]_vars

----------------------------------------------------------------------------
(* What a session holds, read off the provider's raw tables *)

\* the laps of the driver of raw lap i that start before it
EarlierLaps(ses, i) ==
    {j \in 1..Len(ses.laps) :
        /\ ses.laps[j].Driver = ses.laps[i].Driver
        /\ ses.laps[j].LapStartTime[1] < ses.laps[i].LapStartTime[1]}

RawLapEnd(ses, i) == ses.laps[i].LapStartTime[1] + ses.laps[i].LapTime[1]

\* raw lap i has a telemetry sample after the end of the lap before it (the
\* start of the first lap) and not after its own end, in milliseconds
HasTelemetry(ses, i) ==
    /\ ses.laps[i].Driver \in DOMAIN ses.car_data
    /\ \E k \in 1..Len(ses.car_data[ses.laps[i].Driver]) :
         LET time == ses.car_data[ses.laps[i].Driver][k].SessionTime[1]
         IN  /\ time <= RawLapEnd(ses, i)
             /\ IF EarlierLaps(ses, i) = {}
                THEN time > ses.laps[i].LapStartTime[1]
                ELSE \A j \in EarlierLaps(ses, i) : time > RawLapEnd(ses, j)

AllCarData(ses) ==
    \A i \in 1..Len(ses.laps) : ses.laps[i].Driver \in DOMAIN ses.car_data

\* the rows of tbl for raw lap i
RowsOfLap(tbl, ses, i) ==
    {j \in 1..Len(tbl) :
        /\ tbl[j].Driver = MapDict(drivers, ses.laps[i].Driver)
        /\ tbl[j].LapNumber = ses.laps[i].LapNumber}

\* the session of track t is the only one accumulated so far
OnlySession(t) == pc # "KeyError" /\ processed = {t}

----------------------------------------------------------------------------
(* C2 as stated: for a session whose telemetry can be fetched for every     *)
(* driver, the final feature table has exactly one row per (driver, lap)    *)
(* of the session, the laps with an empty telemetry window included; those  *)
(* laps have all aggregate statistics null and the other laps numeric ones. *)

C2_OneRowPerLap ==
    \A t \in Tracks :
        (OnlySession(t) /\ AllCarData(provider[t])) =>
            /\ Len(csv) = Len(provider[t].laps)
            /\ \A i \in 1..Len(provider[t].laps) :
                 /\ Cardinality(RowsOfLap(csv, provider[t], i)) = 1
                 /\ \A j \in RowsOfLap(csv, provider[t], i) :
                      \A c \in StatCols :
                          IsNaN(csv[j][c]) <=> ~HasTelemetry(provider[t], i)

(* C2 as amended: for a session whose telemetry can be fetched for every    *)
(* driver (every driver in the reference tables, with one result record    *)
(* and at most 80 laps), the final feature table has exactly one row per    *)
(* (driver, lap) whose telemetry window is not empty and no row for a lap   *)
(* whose window is empty (2 drivers x 3 laps with driver A's lap 3          *)
(* uncovered gives 5 rows); every row has a gear mode, and its other        *)
(* aggregate statistics are numeric exactly when the (year, location) has   *)
(* a row that is not pit-affected.                                          *)
C2_OneRowPerCoveredLap ==
    \A t \in Tracks :
        (OnlySession(t) /\ AllCarData(provider[t])) =>
            /\ Len(csv) = Cardinality({i \in 1..Len(provider[t].laps) :
                                         HasTelemetry(provider[t], i)})
            /\ \A i \in 1..Len(provider[t].laps) :
                 Cardinality(RowsOfLap(csv, provider[t], i))
                    = IF HasTelemetry(provider[t], i) THEN 1 ELSE 0
            /\ \A j \in 1..Len(csv) :
                 /\ ~IsNaN(csv[j].nGearMode)
                 /\ \A c \in StatCols \ {"nGearMode"} :
                      ~IsNaN(csv[j][c]) <=>
                         \E k \in 1..Len(csv) :
                            csv[k].PitInTime = R(0) /\ csv[k].PitOutTime = R(0)

\* two drivers with three laps each, the third lap of one of them without
\* telemetry: five rows, all with numeric aggregates
C2_Witness ==
    \E t \in Tracks :
        /\ OnlySession(t) /\ AllCarData(provider[t])
        /\ Len(provider[t].laps) = 2 * MaxSessionLaps
        /\ Cardinality({i \in 1..Len(provider[t].laps) :
                          ~HasTelemetry(provider[t], i)}) = 1
        /\ Len(csv) = 2 * MaxSessionLaps - 1
        /\ \A j \in 1..Len(csv) : ~IsNaN(csv[j].RpmMin)

----------------------------------------------------------------------------
(* C7: a reference-mapping miss is never fatal: a session with a driver,    *)
(* team or compound code that is in no reference table is completed for     *)
(* all drivers, the affected rows getting a missing identifier; no error is *)
(* raised in the lap table builder, the per-driver telemetry aggregation or *)
(* the context enricher.                                                    *)

C7_MappingMissNeverFatal ==
    /\ pc # "KeyError"
    /\ \A t \in processed : \A i \in 1..Len(provider[t].laps) :
         HasTelemetry(provider[t], i) =>
            \E j \in 1..Len(raw_data) :
                /\ raw_data[j].LapNumber = provider[t].laps[i].LapNumber
                /\ raw_data[j].Driver = MapDict(drivers, provider[t].laps[i].Driver)
                /\ raw_data[j].Compound = MapDict(compounds, provider[t].laps[i].Compound)

----------------------------------------------------------------------------
(* C8 as stated: when the fetch of a track fails, only that track is        *)
(* abandoned and the loop goes on with the next track, so every later       *)
(* track of the year whose session is available is still processed and      *)
(* accumulated.                                                             *)

\* the session of track t is there and yields lap rows
Processable(t) ==
    /\ provider[t] # NoSession
    /\ ~RaisesKeyError(provider[t])
    /\ SessionLapsFinal(provider[t]) # << >>

C8_FetchFailureSkipsOnlyThatTrack ==
    pc = "done" => \A t \in Tracks : Processable(t) => t \in processed

(* C8 as amended: when the fetch of a track fails, the track loop is left:  *)
(* no later track of that year is processed for that session type, while    *)
(* the tracks before the first failed fetch are processed and accumulated.  *)
C8_FetchFailureEndsTrackLoop ==
    /\ \A t \in Tracks : provider[t] = NoSession =>
          \A u \in Tracks : u > t => u \notin processed
    /\ pc = "done" =>
          \A t \in Tracks :
              (Processable(t) /\ \A u \in Tracks : u < t => provider[u] # NoSession)
                  => t \in processed

\* the first track has no session, the second one has and is never processed
C8_Witness ==
    /\ pc = "done"
    /\ provider[TrackStart] = NoSession
    /\ Processable(TrackStart + 1)
    /\ processed = {}

----------------------------------------------------------------------------
(* C9: after any sequence of sessions processed within a year, the          *)
(* accumulated and persisted dataset is the result of applying the final    *)
(* cleanup and normalisation exactly once to the raw accumulated rows: a    *)
(* later session neither changes the metric values nor removes the rows of  *)
(* the earlier sessions.                                                    *)

C9_CleanupAppliedOnce ==
    (pc # "KeyError" /\ processed # {}) =>
        /\ csv = final_preprocessing(raw_data)
        /\ final_data = csv

----------------------------------------------------------------------------
(* C11: in calculate_lap_agg_telemetry the lap windows of one driver are    *)
(* pairwise disjoint: for every sorted lap sequence, laps with LapTime 0    *)
(* (no lap time recorded) included, so that a lap_end can be smaller than   *)
(* the lap_end of the lap before, each telemetry sample is counted in the   *)
(* aggregate of at most one lap.                                            *)

MaxSweepLaps == 3       \* laps of one driver in the sweep
MaxSweepSamples == 2    \* telemetry samples of one driver in the sweep

\* the laps of one driver as get_session_laps leaves them: a missing lap
\* start or lap time is 0
SweepLapInputs ==
    {[i \in 1..Len(s) |->
        [LapNumber |-> R(i), SessionTime |-> R(s[i][1]), LapTime |-> R(s[i][2])]] :
        s \in {q \in SeqsUpTo(Times \X Times, MaxSweepLaps) :
                 /\ Len(q) >= 1
                 /\ \A i \in 1..(Len(q) - 1) : q[i][1] <= q[i + 1][1]}}

SweepCarInputs ==
    {[i \in 1..Len(s) |-> Sample(s[i], 3 + (s[i] % 2))] :
        s \in {q \in SeqsUpTo(SampleTimes, MaxSweepSamples) :
                 \A i \in 1..(Len(q) - 1) : q[i] <= q[i + 1]}}

InitSweep ==
    /\ driver_laps \in SweepLapInputs
    /\ driver_car \in SweepCarInputs
    /\ lap_windows = Off
    /\ driver_laps_agg = Off
    /\ IdleGear
    /\ IdleTables
    /\ IdleFinal
    /\ IdleMl

NextSweep == CalculateLapAggTelemetry

SpecSweep == InitSweep /\ [][NextSweep]_vars

\* the laps whose window holds the k-th sample of driver_car
LapsCounting(k) ==
    {i \in 1..Len(lap_windows) :
        \E a \in 1..Len(lap_windows[i]) : lap_windows[i][a] = driver_car[k]}

C11_WindowsPairwiseDisjoint ==
    driver_laps_agg # Off =>
        \A k \in 1..Len(driver_car) : Cardinality(LapsCounting(k)) <= 1

====
